---- MODULE Spec2Model ----
(***************************************************************************)
(* Model of bedrock_agent_app.py: a Streamlit chat page in front of a      *)
(* Bedrock agent.  Every user interaction re-executes the script from top  *)
(* to bottom; one action of this model is one interaction together with    *)
(* the script run(s) it triggers.                                          *)
(*                                                                         *)
(* Text is modelled by TLA+ strings, bytes by sequences of integers in     *)
(* 0..255, a trace payload (a dict) by the string of its repr, and the     *)
(* wall clock by an integer number of ticks, TicksPerSec ticks a second.   *)
(***************************************************************************)
EXTENDS Integers, Sequences, FiniteSets, TLC

VARIABLES
    messages,        \* st.session_state.messages
    session_id,      \* st.session_state.session_id
    bedrock_client,  \* st.session_state.bedrock_client
    agent_id,        \* sidebar text input "Agent ID"
    agent_alias_id,  \* sidebar text input "Agent Alias ID"
    enable_trace,    \* sidebar checkbox "Enable Tracing"
    now,             \* the wall clock, in ticks
    can_construct,   \* whether boto3.client(...) would return a client now
    sid_time,        \* the clock reading session_id was formatted from
    errors,          \* the st.error boxes shown by the last script run
    last             \* the last interaction: its inputs and what it did

vars == <<messages, session_id, bedrock_client, agent_id, agent_alias_id,
          enable_trace, now, can_construct, sid_time, errors, last>>

----------------------------------------------------------------------------
(* Bounds of the model *)

MaxStreamLen == 3
MaxTurns == 2
MaxTime == 2

(* Resolution of the model's clock: int(time.time()) drops the fraction *)
TicksPerSec == 2

----------------------------------------------------------------------------
(* Inputs *)

DefaultAgentId == "CBWZKLEVNN"
DefaultAgentAliasId == "TSTALIASID"

AgentIdInputs == {"", DefaultAgentId}
AgentAliasIdInputs == {"", DefaultAgentAliasId}
Prompts == {"Hello", "Status?"}

EmptyTrace == "{}"
TracePayloads == {"{A}", "{B}", EmptyTrace}

\* "h", "i", the empty payload, a two-byte character, a lone lead byte
ByteChunks == {<<104>>, <<105>>, <<>>, <<195, 169>>, <<195>>}

ChunkEvent(bytes) ==
    [tag |-> "chunk", has_bytes |-> TRUE, bytes |-> bytes, trace |-> ""]

ChunkNoBytes ==
    [tag |-> "chunk", has_bytes |-> FALSE, bytes |-> <<>>, trace |-> ""]

TraceEvent(payload) ==
    [tag |-> "trace", has_bytes |-> FALSE, bytes |-> <<>>, trace |-> payload]

OtherEvent ==
    [tag |-> "other", has_bytes |-> FALSE, bytes |-> <<>>, trace |-> ""]

Events ==
    {ChunkEvent(b) : b \in ByteChunks} \cup {ChunkNoBytes}
        \cup {TraceEvent(p) : p \in TracePayloads} \cup {OtherEvent}

Streams == UNION {[1..n -> Events] : n \in 0..MaxStreamLen}

----------------------------------------------------------------------------
(* Python values *)

NoneTrace == [some |-> FALSE, val |-> ""]
SomeTrace(payload) == [some |-> TRUE, val |-> payload]

\* bool(x) of an optional dict: None and {} are false
TraceTruthy(t) == t.some /\ t.val # EmptyTrace

\* mutant: a test for None in place of the truth value
StrIsNotNone(s) == TRUE

\* bool(x) of a str
StrTruthy(s) == s # ""

NoClient == [exists |-> FALSE, runtime |-> "None"]

\* bool(x) of st.session_state.bedrock_client: None is false, and an
\* instance of a class without __bool__ or __len__ is true
ClientTruthy(c) == c.exists

Chr(cp) ==
    CASE cp = 104 -> "h"
      [] cp = 105 -> "i"
      [] cp = 233 -> "e'"
      [] OTHER -> "?"

\* bytes.decode('utf-8') for one- and two-byte sequences
RECURSIVE Utf8Decode(_)
Utf8Decode(bytes) ==
    IF bytes = <<>> THEN [raised |-> FALSE, text |-> ""]
    ELSE LET b == Head(bytes) IN
         IF b < 128
         THEN LET r == Utf8Decode(Tail(bytes)) IN
              IF r.raised THEN r
              ELSE [raised |-> FALSE, text |-> Chr(b) \o r.text]
         ELSE IF b \in 194..223 /\ Len(bytes) >= 2 /\ bytes[2] \in 128..191
         THEN LET r == Utf8Decode(Tail(Tail(bytes))) IN
              IF r.raised THEN r
              ELSE [raised |-> FALSE,
                    text |-> Chr((b - 192) * 64 + (bytes[2] - 128)) \o r.text]
         ELSE [raised |-> TRUE, text |-> ""]

----------------------------------------------------------------------------
(* class BedrockAgentClient *)

\* __init__ and _initialize_client: boto3.client either returns a client or
\* raises, and the exception is reported and swallowed
NewBedrockAgentClient(constructs) ==
    [exists |-> TRUE,
     runtime |-> IF constructs THEN "client" ELSE "None"]

InitErrors(constructs) ==
    IF constructs THEN <<>> ELSE <<"Failed to initialize Bedrock client">>

Request(a_id, alias_id, s_id, text, trace) ==
    [agentId |-> a_id, agentAliasId |-> alias_id, sessionId |-> s_id,
     inputText |-> text, enableTrace |-> trace]

NoRequest == Request("", "", "", "", FALSE)

\* self.bedrock_agent_runtime.invoke_agent(...): an attribute lookup on None
\* raises AttributeError before anything is sent; otherwise the service
\* answers with an event stream or the SDK raises
SdkInvokeAgent(client, sdk, stream) ==
    IF client.runtime = "None"
    THEN [raised |-> TRUE, issued |-> FALSE, completion |-> <<>>]
    ELSE IF sdk = "raise"
    THEN [raised |-> TRUE, issued |-> TRUE, completion |-> <<>>]
    ELSE [raised |-> FALSE, issued |-> TRUE, completion |-> stream]

\* mutant: invoke_agent without its except clause
InvokeAgentUncaught(client, sdk, stream) ==
    LET r == SdkInvokeAgent(client, sdk, stream) IN
    [raised |-> r.raised, is_none |-> r.raised, issued |-> r.issued,
     completion |-> r.completion, errors |-> <<>>]

InvokeAgent(client, sdk, stream) ==
    LET r == SdkInvokeAgent(client, sdk, stream) IN
    IF r.raised
    THEN [raised |-> FALSE, is_none |-> TRUE, issued |-> r.issued,
          completion |-> <<>>, errors |-> <<"Error invoking agent">>]
    ELSE [raised |-> FALSE, is_none |-> FALSE, issued |-> r.issued,
          completion |-> r.completion, errors |-> <<>>]

Item(type, content, t) == [type |-> type, content |-> content, timestamp |-> t]

\* mutant: the items decoded so far are dropped when decoding raises
RECURSIVE ParseLoopDiscard(_, _, _, _)
ParseLoopDiscard(event_stream, i, acc, t) ==
    IF i > Len(event_stream) THEN [messages |-> acc, errors |-> <<>>]
    ELSE LET event == event_stream[i] IN
         IF event.tag = "chunk"
         THEN IF event.has_bytes
              THEN LET d == Utf8Decode(event.bytes) IN
                   IF d.raised
                   THEN [messages |-> <<>>,
                         errors |-> <<"Error parsing response">>]
                   ELSE ParseLoopDiscard(event_stream, i + 1,
                                         Append(acc, Item("text", d.text, t)), t)
              ELSE ParseLoopDiscard(event_stream, i + 1, acc, t)
         ELSE IF event.tag = "trace"
         THEN ParseLoopDiscard(event_stream, i + 1,
                               Append(acc, Item("trace", event.trace, t)), t)
         ELSE ParseLoopDiscard(event_stream, i + 1, acc, t)

\* the for loop of parse_agent_response from event i on, inside its try
RECURSIVE ParseLoop(_, _, _, _)
ParseLoop(event_stream, i, acc, t) ==
    IF i > Len(event_stream) THEN [messages |-> acc, errors |-> <<>>]
    ELSE LET event == event_stream[i] IN
         IF event.tag = "chunk"
         THEN IF event.has_bytes
              THEN LET d == Utf8Decode(event.bytes) IN
                   IF d.raised
                   THEN [messages |-> acc,
                         errors |-> <<"Error parsing response">>]
                   ELSE ParseLoop(event_stream, i + 1,
                                  Append(acc, Item("text", d.text, t)), t)
              ELSE ParseLoop(event_stream, i + 1, acc, t)
         ELSE IF event.tag = "trace"
         THEN ParseLoop(event_stream, i + 1,
                        Append(acc, Item("trace", event.trace, t)), t)
         ELSE ParseLoop(event_stream, i + 1, acc, t)

ParseAgentResponse(response, t) ==
    IF response.is_none THEN [messages |-> <<>>, errors |-> <<>>]
    ELSE ParseLoop(response.completion, 1, <<>>, t)

----------------------------------------------------------------------------
(* The chat input handler *)

UserMessage(prompt, t) ==
    [role |-> "user", content |-> prompt, type |-> "none", timestamp |-> t]

AssistantMessage(content, t) ==
    [role |-> "assistant", content |-> content, type |-> "none",
     timestamp |-> t]

TraceMessage(payload, t) ==
    [role |-> "assistant", content |-> payload, type |-> "trace",
     timestamp |-> t]

NoResponseMsg == "No response received from the agent."
FailedMsg ==
    "Failed to get response from agent. Please check your configuration."

\* mutant: each text item is put in front of the text so far
RECURSIVE CombinePrepend(_, _, _, _)
CombinePrepend(msgs, i, full_response, trace_data) ==
    IF i > Len(msgs)
    THEN [full_response |-> full_response, trace_data |-> trace_data]
    ELSE IF msgs[i].type = "text"
    THEN CombinePrepend(msgs, i + 1, msgs[i].content \o full_response,
                        trace_data)
    ELSE IF msgs[i].type = "trace"
    THEN CombinePrepend(msgs, i + 1, full_response,
                        SomeTrace(msgs[i].content))
    ELSE CombinePrepend(msgs, i + 1, full_response, trace_data)

\* mutant: the first trace item is kept, later ones are ignored
RECURSIVE CombineFirstTrace(_, _, _, _)
CombineFirstTrace(msgs, i, full_response, trace_data) ==
    IF i > Len(msgs)
    THEN [full_response |-> full_response, trace_data |-> trace_data]
    ELSE IF msgs[i].type = "text"
    THEN CombineFirstTrace(msgs, i + 1, full_response \o msgs[i].content,
                           trace_data)
    ELSE IF msgs[i].type = "trace" /\ ~trace_data.some
    THEN CombineFirstTrace(msgs, i + 1, full_response,
                           SomeTrace(msgs[i].content))
    ELSE CombineFirstTrace(msgs, i + 1, full_response, trace_data)

\* "Combine text messages": the loop over the parsed items
RECURSIVE Combine(_, _, _, _)
Combine(msgs, i, full_response, trace_data) ==
    IF i > Len(msgs)
    THEN [full_response |-> full_response, trace_data |-> trace_data]
    ELSE IF msgs[i].type = "text"
    THEN Combine(msgs, i + 1, full_response \o msgs[i].content, trace_data)
    ELSE IF msgs[i].type = "trace"
    THEN Combine(msgs, i + 1, full_response, SomeTrace(msgs[i].content))
    ELSE Combine(msgs, i + 1, full_response, trace_data)

\* mutant: the trace message is appended whether or not tracing is enabled
ReplyMessagesAnyTrace(full_response, trace_data, trace, t) ==
    IF StrTruthy(full_response)
    THEN <<AssistantMessage(full_response, t)>>
            \o (IF TraceTruthy(trace_data)
                THEN <<TraceMessage(trace_data.val, t)>> ELSE <<>>)
    ELSE <<AssistantMessage(NoResponseMsg, t)>>

\* what the handler appends after a response that is not None
ReplyMessages(full_response, trace_data, trace, t) ==
    IF StrTruthy(full_response)
    THEN <<AssistantMessage(full_response, t)>>
            \o (IF TraceTruthy(trace_data) /\ trace
                THEN <<TraceMessage(trace_data.val, t)>> ELSE <<>>)
    ELSE <<AssistantMessage(NoResponseMsg, t)>>

ReplyErrors(full_response) ==
    IF StrTruthy(full_response) THEN <<>> ELSE <<NoResponseMsg>>

\* mutant: the list is assigned anew in place of being appended to
Overwritten(msgs, prompt, reply, t) == <<UserMessage(prompt, t)>> \o reply

\* the transcript after the appends of one turn
Appended(msgs, prompt, reply, t) == (msgs \o <<UserMessage(prompt, t)>>) \o reply

\* the whole handler: the transcript, the error boxes, and whether an
\* exception left the handler (which ends the script run where it is)
ChatInput(msgs, client, prompt, trace, sdk, stream, t) ==
    LET response == InvokeAgent(client, sdk, stream)
        parsed == ParseAgentResponse(response, t)
        c == Combine(parsed.messages, 1, "", NoneTrace)
    IN  IF response.raised
        THEN [messages |-> Appended(msgs, prompt, <<>>, t), errors |-> <<>>,
              escaped |-> TRUE, issued |-> response.issued,
              response_none |-> TRUE, parsed |-> <<>>]
        ELSE IF ~response.is_none
        THEN [messages |->
                  Appended(msgs, prompt,
                           ReplyMessages(c.full_response, c.trace_data,
                                         trace, t), t),
              errors |-> parsed.errors \o ReplyErrors(c.full_response),
              escaped |-> FALSE, issued |-> response.issued,
              response_none |-> FALSE, parsed |-> parsed.messages]
        ELSE [messages |->
                  Appended(msgs, prompt, <<AssistantMessage(FailedMsg, t)>>, t),
              errors |-> response.errors \o <<FailedMsg>>,
              escaped |-> FALSE, issued |-> response.issued,
              response_none |-> TRUE, parsed |-> <<>>]

----------------------------------------------------------------------------------------------------------------------------------------
(* The script *)

\* int(time.time()) of a clock reading in ticks
IntTime(t) == t \div TicksPerSec

\* mutant: the id is formatted from the minute, not the second
MakeSessionIdMinute(t) == "session_" \o ToString(IntTime(t) \div 60)

\* f"session_{int(time.time())}"
MakeSessionId(t) == "session_" \o ToString(IntTime(t))

\* "Initialize Bedrock client": constructed only while the slot is falsy
LazyInit(client, constructs) ==
    IF ~ClientTruthy(client) THEN NewBedrockAgentClient(constructs)
    ELSE client

LazyInitErrors(client, constructs) ==
    IF ~ClientTruthy(client) THEN InitErrors(constructs) ELSE <<>>

\* the number the footer shows under "Messages"
RECURSIVE UserCount(_)
UserCount(msgs) ==
    IF msgs = <<>> THEN 0
    ELSE (IF Head(msgs).role = "user" THEN 1 ELSE 0) + UserCount(Tail(msgs))

NoHandler ==
    [issued |-> FALSE, response_none |-> TRUE, escaped |-> FALSE,
     parsed |-> <<>>]

\* the record of an interaction: op, and for a turn what was submitted, what
\* the service did, the request built, and what the handler did with it
Last(op, prompt, sdk, stream, request, h, t, before_len) ==
    [op |-> op, prompt |-> prompt, sdk |-> sdk, stream |-> stream,
     request |-> request, issued |-> h.issued,
     response_none |-> h.response_none, escaped |-> h.escaped,
     parsed |-> h.parsed, constructible |-> can_construct,
     time |-> t, before_len |-> before_len]

NoTurn(op, before_len) ==
    Last(op, "", "n/a", <<>>, NoRequest, NoHandler, 0, before_len)

\* the session state and the widgets after the first script run
FirstRun(t) ==
    /\ session_id = MakeSessionId(t)
    /\ sid_time = t
    /\ now = t
    /\ bedrock_client = LazyInit(NoClient, can_construct)
    /\ errors = LazyInitErrors(NoClient, can_construct)
    /\ agent_id = DefaultAgentId
    /\ agent_alias_id = DefaultAgentAliasId
    /\ last = NoTurn("load", 0)

Init ==
    /\ can_construct \in BOOLEAN
    /\ messages = <<>>
    /\ enable_trace = FALSE
    /\ \E t \in 0..(TicksPerSec - 1) : FirstRun(t)

\* a script run in which nothing was submitted in the chat box; the record
\* keeps the length of the transcript a button emptied
Rerun(op, emptied) ==
    /\ bedrock_client' = LazyInit(bedrock_client, can_construct)
    /\ errors' = LazyInitErrors(bedrock_client, can_construct)
    /\ last' = NoTurn(op, emptied)

\* the "New Session" button, then st.rerun()
NewSession ==
    /\ session_id' = MakeSessionId(now)
    /\ sid_time' = now
    /\ messages' = <<>>
    /\ Rerun("new_session", Len(messages))
    /\ UNCHANGED <<agent_id, agent_alias_id, enable_trace, now, can_construct>>

\* the "Clear Chat" button, then st.rerun()
ClearChat ==
    /\ messages' = <<>>
    /\ Rerun("clear_chat", Len(messages))
    /\ UNCHANGED <<session_id, sid_time, agent_id, agent_alias_id,
                   enable_trace, now, can_construct>>

SetAgentId(v) ==
    /\ v # agent_id
    /\ agent_id' = v
    /\ Rerun("set_agent_id", 0)
    /\ UNCHANGED <<messages, session_id, sid_time, agent_alias_id,
                   enable_trace, now, can_construct>>

SetAgentAliasId(v) ==
    /\ v # agent_alias_id
    /\ agent_alias_id' = v
    /\ Rerun("set_agent_alias_id", 0)
    /\ UNCHANGED <<messages, session_id, sid_time, agent_id, enable_trace,
                   now, can_construct>>

ToggleTrace ==
    /\ enable_trace' = ~enable_trace
    /\ Rerun("toggle_trace", 0)
    /\ UNCHANGED <<messages, session_id, sid_time, agent_id, agent_alias_id,
                   now, can_construct>>

\* a prompt submitted in the chat box; the box is only drawn when the
\* script got past st.stop(), that is with an Agent ID entered.  sdk and
\* stream are what the service does with the request.
Turn(prompt, sdk, stream) ==
    /\ agent_id # ""
    /\ prompt # ""
    /\ sdk = "raise" => stream = <<>>
    /\ bedrock_client' = LazyInit(bedrock_client, can_construct)
    /\ LET h == ChatInput(messages, bedrock_client', prompt, enable_trace,
                          sdk, stream, now)
           request == Request(agent_id, agent_alias_id, session_id, prompt,
                              enable_trace)
       IN  /\ messages' = h.messages
           /\ errors' = LazyInitErrors(bedrock_client, can_construct)
                            \o h.errors
           /\ last' = Last("turn", prompt, sdk, stream, request, h, now,
                           Len(messages))
    /\ UNCHANGED <<session_id, sid_time, agent_id, agent_alias_id,
                   enable_trace, now, can_construct>>

\* the environment: time passes, credentials and configuration come and go
ClockTick ==
    /\ now < MaxTime
    /\ now' = now + 1
    /\ UNCHANGED <<messages, session_id, bedrock_client, agent_id,
                   agent_alias_id, enable_trace, can_construct, sid_time,
                   errors, last>>

EnvironmentChange ==
    /\ can_construct' = ~can_construct
    /\ UNCHANGED <<messages, session_id, bedrock_client, agent_id,
                   agent_alias_id, enable_trace, now, sid_time, errors, last>>

\* the streams the service answers with in the session-level specification
SessionStreams ==
    {<<>>,
     <<TraceEvent("{A}"), ChunkEvent(<<104>>), TraceEvent("{B}")>>}

SessionPrompts == {"Hello"}

SessionTurn ==
    /\ UserCount(messages) < MaxTurns
    /\ \E p \in SessionPrompts, sdk \in {"ok", "raise"}, s \in SessionStreams :
           Turn(p, sdk, s)

Next ==
    \/ NewSession
    \/ ClearChat
    \/ \E v \in AgentIdInputs : SetAgentId(v)
    \/ \E v \in AgentAliasIdInputs : SetAgentAliasId(v)
    \/ ToggleTrace
    \/ SessionTurn
    \/ ClockTick
    \/ EnvironmentChange

Spec == Init /\ [][Next]_vars

----------------------------------------------------------------------------
(* One turn on every stream, from a session that already holds a transcript *)

PriorTranscripts ==
    {<<>>,
     <<UserMessage("Hello", 0), AssistantMessage("hi", 0)>>,
     <<UserMessage("Hello", 0), AssistantMessage("h", 0),
       TraceMessage("{A}", 0)>>}

InitTurn ==
    /\ can_construct = TRUE
    /\ messages \in PriorTranscripts
    /\ enable_trace \in BOOLEAN
    /\ FirstRun(0)

StreamTurn ==
    /\ last.op = "load"
    /\ \E p \in Prompts, sdk \in {"ok", "raise"}, s \in Streams :
           Turn(p, sdk, s)

NextTurn == StreamTurn

SpecTurn == InitTurn /\ [][NextTurn]_vars

----------------------------------------------------------------------------
(* Vocabulary of the properties, stated on the stream the service sent *)

Range(f) == {f[i] : i \in DOMAIN f}

IsPrefix(a, b) == Len(a) <= Len(b) /\ SubSeq(b, 1, Len(a)) = a

Faulty(e) == e.tag = "chunk" /\ e.has_bytes /\ Utf8Decode(e.bytes).raised

IsTextChunk(e) == e.tag = "chunk" /\ e.has_bytes /\ ~Utf8Decode(e.bytes).raised

IsTrace(e) == e.tag = "trace"

FaultsAt(stream) == {i \in DOMAIN stream : Faulty(stream[i])}

\* the elements the decoder got from the stream before the first fault
Arrived(stream) ==
    IF FaultsAt(stream) = {} THEN stream
    ELSE SubSeq(stream, 1,
                (CHOOSE k \in FaultsAt(stream) :
                     \A j \in FaultsAt(stream) : k <= j) - 1)

TextChunks(stream) == SelectSeq(Arrived(stream), IsTextChunk)

Traces(stream) == SelectSeq(Arrived(stream), IsTrace)

\* C1 + C2 + ... + Cn of a sequence of text chunks
RECURSIVE Concatenation(_)
Concatenation(chunks) ==
    IF chunks = <<>> THEN ""
    ELSE Concatenation(SubSeq(chunks, 1, Len(chunks) - 1))
             \o Utf8Decode(chunks[Len(chunks)].bytes).text

\* what the last interaction added to the transcript
NewMessages == SubSeq(messages, last.before_len + 1, Len(messages))

TraceCount == Cardinality({i \in DOMAIN NewMessages : NewMessages[i].type = "trace"})

IsTurn == last.op = "turn"

\* the turn's invocation returned a response
Delivered == IsTurn /\ last.sdk = "ok" /\ last.issued

\* the turn's SDK call raised, inside the SDK or on the missing runtime
InvocationFailed == IsTurn /\ (last.sdk = "raise" \/ ~last.issued)

----------------------------------------------------------------------------
(* Properties *)

\* C1 as stated: in a turn whose stream yields text chunks C1..Cn, n >= 1,
\* the assistant message appended after the user message has the content
\* C1 + ... + Cn.
C1_AsStated ==
    (Delivered /\ Len(TextChunks(last.stream)) >= 1)
        => /\ Len(NewMessages) >= 2
           /\ NewMessages[2] =
                  AssistantMessage(Concatenation(TextChunks(last.stream)),
                                   last.time)

\* C1, amended: in a turn whose stream yields text chunks C1..Cn, n >= 1,
\* whose concatenation is not the empty string, the assistant message
\* appended after the user message has the content C1 + ... + Cn; when the
\* concatenation is empty the "no response" placeholder is appended instead.
C1_Concatenation ==
    (Delivered /\ Len(TextChunks(last.stream)) >= 1)
        => /\ Len(NewMessages) >= 2
           /\ NewMessages[1] = UserMessage(last.prompt, last.time)
           /\ NewMessages[2] =
                  AssistantMessage(
                      IF Concatenation(TextChunks(last.stream)) # ""
                      THEN Concatenation(TextChunks(last.stream))
                      ELSE NoResponseMsg, last.time)
           /\ \A i \in 3..Len(NewMessages) : NewMessages[i].type = "trace"

C1_Witness ==
    /\ Delivered
    /\ last.before_len > 0
    /\ last.stream = <<ChunkEvent(<<104>>), TraceEvent("{A}"),
                       ChunkEvent(<<105>>)>>
    /\ NewMessages[2].content = "hi"

\* C2: when the SDK call of a turn raises, the transcript gains the user
\* message and one assistant error placeholder, no trace message, and no
\* exception leaves invoke_agent or the handler.
C2_InvocationFailure ==
    InvocationFailed
        => /\ NewMessages = <<UserMessage(last.prompt, last.time),
                              AssistantMessage(FailedMsg, last.time)>>
           /\ ~last.escaped

C2_Witness ==
    /\ InvocationFailed
    /\ last.sdk = "raise"
    /\ last.issued
    /\ last.before_len > 0
    /\ last.request.enableTrace
    /\ Len(NewMessages) = 2

\* C3: when the invocation succeeds and the stream holds no text chunk, the
\* transcript gains the user message and then exactly the "no response
\* received" placeholder, and nothing built from the stream.
C3_EmptyResponse ==
    (Delivered /\ TextChunks(last.stream) = <<>>)
        => NewMessages = <<UserMessage(last.prompt, last.time),
                           AssistantMessage(NoResponseMsg, last.time)>>

C3_Witness ==
    /\ Delivered
    /\ last.request.enableTrace
    /\ last.stream = <<TraceEvent("{A}"), OtherEvent, ChunkNoBytes>>
    /\ NewMessages[2].content = NoResponseMsg

\* C4: a turn appends at most one trace message, and none when tracing is
\* disabled or no trace element arrived.
C4_AtMostOneTrace ==
    IsTurn
        => /\ TraceCount <= 1
           /\ (~last.request.enableTrace \/ Traces(last.stream) = <<>>)
                  => TraceCount = 0

C4_Witness ==
    /\ Delivered
    /\ ~last.request.enableTrace
    /\ Len(Traces(last.stream)) >= 2
    /\ Len(TextChunks(last.stream)) >= 1
    /\ Len(NewMessages) = 2
    /\ TraceCount = 0

\* C5: with tracing enabled and several trace elements in the turn, a trace
\* message appended for the turn carries the payload of the last of them,
\* and it is the one message after the assistant text whenever there is text
\* and that payload is not empty.
C5_LastTrace ==
    (Delivered /\ last.request.enableTrace /\ Len(Traces(last.stream)) >= 2)
        => LET traces == Traces(last.stream)
               payload == traces[Len(traces)].trace
               text == Concatenation(TextChunks(last.stream))
           IN  /\ \A i \in DOMAIN NewMessages :
                      NewMessages[i].type = "trace"
                          => NewMessages[i] = TraceMessage(payload, last.time)
               /\ (text # "" /\ payload # EmptyTrace)
                      => NewMessages = <<UserMessage(last.prompt, last.time),
                                         AssistantMessage(text, last.time),
                                         TraceMessage(payload, last.time)>>

C5_Witness ==
    /\ Delivered
    /\ last.request.enableTrace
    /\ last.stream = <<TraceEvent("{A}"), ChunkEvent(<<104>>),
                       TraceEvent("{B}")>>
    /\ NewMessages[2].content = "h"
    /\ NewMessages[3] = TraceMessage("{B}", last.time)

\* the item parse_agent_response makes of a recognised element
ItemOf(e, t) ==
    IF e.tag = "trace" THEN Item("trace", e.trace, t)
    ELSE Item("text", Utf8Decode(e.bytes).text, t)

Recognised(e) == IsTextChunk(e) \/ IsTrace(e)

\* C6: when decoding raises at element k, parse_agent_response reports the
\* error and returns exactly the items of the elements before k, in order,
\* and the text among them still makes the turn's assistant message.
C6_PartialResult ==
    (Delivered /\ FaultsAt(last.stream) # {})
        => LET before == SelectSeq(Arrived(last.stream), Recognised)
               text == Concatenation(TextChunks(last.stream))
           IN  /\ last.parsed =
                      [i \in 1..Len(before) |-> ItemOf(before[i], last.time)]
               /\ "Error parsing response" \in Range(errors)
               /\ text # ""
                      => NewMessages[2] = AssistantMessage(text, last.time)

C6_Witness ==
    /\ Delivered
    /\ last.stream = <<ChunkEvent(<<104>>), ChunkEvent(<<195>>),
                       ChunkEvent(<<105>>)>>
    /\ Len(last.parsed) = 1
    /\ NewMessages[2].content = "h"

\* C7: New Session leaves the transcript empty, whatever it held, and gives
\* a session id different from the one before whenever at least one second
\* has passed since that one was made.
C7_Reset ==
    [][NewSession
           => /\ messages' = <<>>
              /\ (now - sid_time >= TicksPerSec => session_id' # session_id)]_vars

C7_Witness ==
    /\ last.op = "new_session"
    /\ last.before_len > 0
    /\ messages = <<>>
    /\ sid_time >= TicksPerSec
    /\ session_id # MakeSessionId(0)

\* C8 as stated: a client whose construction failed is constructed again on
\* the next use, so a turn taken when construction can succeed has a working
\* client and its invocation succeeds when the service answers.
C8_AsStated ==
    (IsTurn /\ last.constructible)
        => /\ bedrock_client.runtime = "client"
           /\ last.sdk = "ok" => ~last.response_none

\* C9 as stated: every invocation sent carries a non-empty agentId,
\* agentAliasId, sessionId and inputText.
C9_AsStated ==
    (IsTurn /\ last.issued)
        => /\ last.request.agentId # ""
           /\ last.request.agentAliasId # ""
           /\ last.request.sessionId # ""
           /\ last.request.inputText # ""

\* C10 as stated: only New Session removes or changes messages; every other
\* step leaves the transcript as it was or longer at its end.
C10_AsStated ==
    [][NewSession \/ IsPrefix(messages, messages')]_vars

\* C10, amended: only New Session and Clear Chat remove messages; every
\* other step leaves the transcript as it was or longer at its end.
C10_AppendOnly ==
    [][NewSession \/ ClearChat \/ IsPrefix(messages, messages')]_vars

C10_Witness ==
    /\ IsTurn
    /\ last.before_len > 0
    /\ Len(messages) > last.before_len
    /\ UserCount(messages) = 2

====
